---- MODULE Spec2Model ----
(***************************************************************************)
(* MatchlensAI: the payment-gated intake workflow.                         *)
(*                                                                         *)
(* POST /api/payments/store exists in several copies in the repository;    *)
(* each is a server that can be deployed, and `variant' says which runs:   *)
(*   "router"    backend/src/routes/payments.js   router.post('/store')    *)
(*   "optimized" unnamed/part_006                 app.post(...)            *)
(*   "simple"    unnamed/part_007                 app.post(...)            *)
(*   "server"    backend/src/server.js            app.post(...)            *)
(* (unnamed/part_008 is server.js without the try around pool.connect().)  *)
(* The store is PostgreSQL with the tables of optimizedSchema              *)
(* (unnamed/part_003).  Each `await' of a handler is one step, so requests *)
(* interleave exactly where the Node.js event loop lets them.              *)
(***************************************************************************)
EXTENDS Integers, Sequences, FiniteSets, TLC

\* ------------------------------------------------------------------ bounds
MaxRequests == 2      \* intake requests received in one behaviour
MaxInFlight == 2      \* intake requests in progress at the same time
MaxPhotos == 2        \* photos in the original-photo collection
MaxFaults == 1        \* infrastructure failures (dropped connection, timeout)

\* A request runs in a slot; a finished request stays readable in its slot
\* until the next request takes the slot.
Rids == 1..MaxInFlight

\* ----------------------------------------------------------- request space
Variants == {"router", "optimized", "simple", "server"}

OrderIds == {"o1", "o2"}
OnboardingOrderId == "onboarding-1"
PaymentIds == {"p1", "p2"}
GoodEmail == "ann@x.io"
BadEmail == "nobody"          \* truthy, but not an e-mail address
Emails == {GoodEmail, BadEmail}

\* datingGoal stands for the five categorical fields of the profile (dating
\* goal, match-count bucket, body type, style preference, ethnicity).
DatingGoals == {"serious", "casual", "friends", "explore"}
BadGoal == "soulmate"             \* not one of the declared values

OriginalBatch == [i \in 1..MaxPhotos |-> i]
ScreenshotBatch == <<MaxPhotos + 1>>

NoData ==
  [present |-> FALSE, name |-> "", email |-> "", datingGoal |-> "",
   originalPhotos |-> <<>>, screenshotPhotos |-> <<>>]

OnboardingData(name, email, withPhotos) ==
  [present |-> TRUE, name |-> name, email |-> email, datingGoal |-> "casual",
   originalPhotos |-> IF withPhotos THEN OriginalBatch ELSE <<>>,
   screenshotPhotos |-> IF withPhotos THEN ScreenshotBatch ELSE <<>>]

StoreRequest(o, p, amt, cust, status, data, src) ==
  [orderId |-> o, paymentId |-> p, amount |-> amt, customerEmail |-> cust,
   status |-> status, onboardingData |-> data, src |-> src]

\* Bodies a client (or the frontend proxy, which forwards any body) can post.
\* "" stands for an absent or empty string field, 0 for an absent or zero
\* amount: both are falsy in the handlers' `!field' tests.
CaptureIdOf(o) == IF o = "o1" THEN "p1" ELSE "p2"

\* Bodies that pass validation.  Between them: the same body twice, the same
\* order with another profile, the same profile e-mail with another order, two
\* unrelated bodies, and a body that reuses the capture id of another order.
\* The first carries photos.
WellFormed(o, p, e) ==
  StoreRequest(o, p, 1, "cust@x.io", "completed",
               OnboardingData("Ann", e, o = "o1" /\ e = GoodEmail), "client")

WellFormedRequests ==
  { WellFormed("o1", "p1", GoodEmail), WellFormed("o1", "p2", BadEmail),
    WellFormed("o2", "p2", GoodEmail), WellFormed("o2", "p2", BadEmail) }

BaseRequest == WellFormed("o1", "p1", GoodEmail)

MalformedRequests ==
  { [BaseRequest EXCEPT !.orderId = ""],
    [BaseRequest EXCEPT !.paymentId = ""],
    [BaseRequest EXCEPT !.amount = 0],
    [BaseRequest EXCEPT !.amount = -1],
    [BaseRequest EXCEPT !.customerEmail = ""],
    [BaseRequest EXCEPT !.status = "pending"],
    [BaseRequest EXCEPT !.onboardingData = NoData],
    [BaseRequest EXCEPT !.onboardingData = OnboardingData("", GoodEmail, TRUE)],
    [BaseRequest EXCEPT !.onboardingData = OnboardingData("Ann", "", TRUE)],
    [BaseRequest EXCEPT !.onboardingData =
       [OnboardingData("Ann", GoodEmail, FALSE) EXCEPT !.datingGoal = BadGoal]] }

ClientRequests == WellFormedRequests \cup MalformedRequests

\* The body the onboarding-submit route builds: a made-up order id, amount
\* 1.00 and status "completed", for an order the processor never saw.
OnboardingSubmitRequest(email, withPhotos) ==
  StoreRequest(OnboardingOrderId, OnboardingOrderId, 1, email, "completed",
               OnboardingData("Ann", email, withPhotos), "onboarding")

\* ---------------------------------------------------------------- responses
\* The JSON body and HTTP status a handler sends.  status 0: nothing sent.
NoResp ==
  [status |-> 0, success |-> FALSE, message |-> "", error |-> "",
   userId |-> 0, paymentId |-> 0, orderId |-> ""]

Reject(msg) == [NoResp EXCEPT !.status = 400, !.message = msg]

Failure(msg, err) == [NoResp EXCEPT !.status = 500, !.message = msg, !.error = err]

MissingPaymentField(q) ==
  q.orderId = "" \/ q.paymentId = "" \/ q.amount = 0 \/ q.customerEmail = ""

MissingOnboarding(q) ==
  \/ ~q.onboardingData.present
  \/ q.onboardingData.name = ""
  \/ q.onboardingData.email = ""

\* payments.js: three separate checks, three messages.
ValidateRouter(q) ==
  IF MissingPaymentField(q) THEN Reject("Missing required payment fields")
  ELSE IF q.status # "completed"
    THEN Reject("Payment must be completed before storing questionnaire data")
  ELSE IF MissingOnboarding(q)
    THEN Reject("Missing required onboarding data (name, email)")
  ELSE NoResp

\* part_006, part_007: the status test shares the first check and its message.
ValidateOptimized(q) ==
  IF MissingPaymentField(q) \/ q.status # "completed"
    THEN Reject("Missing required payment fields or payment not completed")
  ELSE IF MissingOnboarding(q)
    THEN Reject("Missing onboarding data (name and email required)")
  ELSE NoResp

\* server.js.
ValidateServer(q) ==
  IF MissingPaymentField(q) \/ q.status # "completed"
    THEN Reject("Missing required fields or payment not completed")
  ELSE IF MissingOnboarding(q) THEN Reject("Missing onboarding data")
  ELSE NoResp

Validate(v, q) ==
  CASE v = "router" -> ValidateRouter(q)
    [] v \in {"optimized", "simple"} -> ValidateOptimized(q)
    [] OTHER -> ValidateServer(q)

SuccessResponse(v, q, userId, paymentIdResult) ==
  IF v = "router"
    THEN [NoResp EXCEPT !.status = 200, !.success = TRUE,
            !.message = "Payment successful - Questionnaire data stored successfully",
            !.userId = userId, !.paymentId = paymentIdResult,
            !.orderId = q.orderId]
    ELSE [NoResp EXCEPT !.status = 200, !.success = TRUE,
            !.message = "Data stored successfully",
            !.userId = userId, !.paymentId = paymentIdResult]

\* The 500 answer of the catch block; err is error.message.
FailureResponse(v, dev, err) ==
  CASE v = "router" -> Failure("Failed to store payment", err)
    [] v = "optimized" ->
         Failure("Failed to store data", IF dev THEN err ELSE "Internal server error")
    [] v = "simple" -> Failure("Failed to store data", "")
    [] OTHER -> Failure("Failed to store data", err)

\* What the caller gets when pool.connect() rejects: payments.js has the call
\* inside its outer try, server.js in a try of its own; in part_006 and
\* part_007 the rejection escapes the async handler and nothing is sent.
ConnectFailureResponse(v, err) ==
  CASE v = "router" -> Failure("Failed to store payment", err)
    [] v = "server" -> Failure("Database connection failed", "")
    [] OTHER -> NoResp

\* ------------------------------------------------------------ asset uploader
OriginalFolder == "matchlens-onboarding-photos"
ScreenshotFolder == "matchlens-onboarding-screenshots"
BatchSize == 3

SecureUrl(folder, image) == [folder |-> folder, image |-> image]

\* payments.js / server.js: one upload after the other; a rejected upload is
\* caught and the loop goes on.  ok is the set of images the object store
\* accepts.
RECURSIVE UploadLoop(_, _, _, _)
UploadLoop(images, folder, ok, uploadedUrls) ==
  IF images = <<>> THEN uploadedUrls
  ELSE LET imageData == Head(images) IN
       UploadLoop(Tail(images), folder, ok,
                  IF imageData \in ok
                    THEN Append(uploadedUrls, SecureUrl(folder, imageData))
                    ELSE uploadedUrls)

uploadImagesToCloudinary(images, folder, ok) == UploadLoop(images, folder, ok, <<>>)

\* part_007: Promise.all over all images, then filter(Boolean).
FilterUploaded(images, folder, ok) ==
  LET F[i \in 0..Len(images)] ==
        IF i = 0 THEN <<>>
        ELSE IF images[i] \in ok
          THEN Append(F[i - 1], SecureUrl(folder, images[i]))
          ELSE F[i - 1]
  IN F[Len(images)]

\* part_006: the same in batches of three, results pushed batch by batch.
RECURSIVE UploadBatches(_, _, _, _, _)
UploadBatches(images, folder, ok, i, results) ==
  IF i > Len(images) THEN results
  ELSE LET last == IF i + BatchSize - 1 < Len(images)
                     THEN i + BatchSize - 1 ELSE Len(images)
           batch == SubSeq(images, i, last)
       IN UploadBatches(images, folder, ok, i + BatchSize,
                        results \o FilterUploaded(batch, folder, ok))

\* An uploader that awaits all uploads together and gives up on the first
\* rejection.
uploadImagesAllOrNothing(v, images, folder, ok) ==
  IF \A i \in 1..Len(images) : images[i] \in ok
    THEN [i \in 1..Len(images) |-> SecureUrl(folder, images[i])]
    ELSE <<>>

uploadImages(v, images, folder, ok) ==
  CASE v \in {"router", "server"} -> uploadImagesToCloudinary(images, folder, ok)
    [] v = "optimized" -> UploadBatches(images, folder, ok, 1, <<>>)
    [] OTHER -> FilterUploaded(images, folder, ok)

SeqRange(s) == { s[i] : i \in 1..Len(s) }

\* ---------------------------------------------------------- submission store
\* Error messages of the store, as error.message carries them.
DupEmail == "duplicate key value violates unique constraint onboarding_submissions_email_key"
DupOrder == "duplicate key value violates unique constraint payments_order_id_key"
DupPaypalId == "duplicate key value violates unique constraint payments_paypal_payment_id_key"
AmountCheck == "new row violates check constraint payments_amount_check"
ConnectionLost == "connection terminated unexpectedly"
FkUser == "insert or update on table payments violates foreign key constraint payments_user_id_fkey"

\* A handler that stores the posted image payloads instead of the URLs the
\* object store returned.
ProfileRowRawImages(userId, q, originalUrls, screenshotUrls) ==
  [user_id |-> userId, name |-> q.onboardingData.name,
   email |-> q.onboardingData.email,
   dating_goal |-> q.onboardingData.datingGoal,
   original_photos |-> q.onboardingData.originalPhotos,
   screenshot_photos |-> q.onboardingData.screenshotPhotos]

ProfileRow(userId, q, originalUrls, screenshotUrls) ==
  [user_id |-> userId, name |-> q.onboardingData.name,
   email |-> q.onboardingData.email,
   dating_goal |-> q.onboardingData.datingGoal,
   original_photos |-> originalUrls, screenshot_photos |-> screenshotUrls]

PaymentRow(paymentId, userId, q) ==
  [payment_id |-> paymentId, user_id |-> userId, order_id |-> q.orderId,
   paypal_payment_id |-> q.paymentId, amount |-> q.amount,
   customer_email |-> q.customerEmail, status |-> q.status]

\* The constraint an INSERT INTO onboarding_submissions violates against the
\* committed rows ("" when none): email UNIQUE.
ProfileViolation(committed, row) ==
  IF \E p \in committed : p.email = row.email THEN DupEmail ELSE ""

\* A payments table whose order_id column is not UNIQUE.
PaymentViolationNoOrderKey(committed, row) ==
  IF ~(row.amount > 0) THEN AmountCheck
  ELSE IF \E p \in committed : p.paypal_payment_id = row.paypal_payment_id
    THEN DupPaypalId
  ELSE ""

\* INSERT INTO payments: CHECK (amount > 0) is evaluated on the tuple, then
\* the unique indexes in the order they were created.
PaymentViolation(committed, row) ==
  IF ~(row.amount > 0) THEN AmountCheck
  ELSE IF \E p \in committed : p.order_id = row.order_id THEN DupOrder
  ELSE IF \E p \in committed : p.paypal_payment_id = row.paypal_payment_id
    THEN DupPaypalId
  ELSE ""

\* payments.user_id REFERENCES onboarding_submissions(user_id): the row must
\* point at a profile the inserting transaction can see (committed, or
\* inserted by itself).  The trigger runs after the unique indexes.
ForeignKeyViolation(visible, row) ==
  IF \E o \in visible : o.user_id = row.user_id THEN "" ELSE FkUser

\* The repository creates the two tables in two ways: optimizedSchema, and
\* setupUpdatedSchema, whose tables have the keys and the foreign key but no
\* CHECK constraints and only order_id UNIQUE.
Schemas == {"optimized", "updated"}

GoalCheck == "new row violates check constraint onboarding_submissions_dating_goal_check"

\* optimizedSchema: dating_goal ... CHECK (dating_goal IN (...)), and the
\* like for the other categorical columns.
CategoryViolation(row) ==
  IF row.dating_goal \in DatingGoals THEN "" ELSE GoalCheck

\* The error an INSERT INTO onboarding_submissions raises ("" when none):
\* CHECK constraints on the tuple first, then the unique index.
ProfileInsertError(sch, committed, row) ==
  IF sch = "optimized"
    THEN IF CategoryViolation(row) # "" THEN CategoryViolation(row)
         ELSE ProfileViolation(committed, row)
    ELSE ""

\* setupUpdatedSchema: order_id UNIQUE is the only constraint on the values.
PaymentViolationUpdated(committed, row) ==
  IF \E p \in committed : p.order_id = row.order_id THEN DupOrder ELSE ""

\* The error an INSERT INTO payments raises ("" when none); visible are the
\* profile rows the inserting transaction can see.
PaymentInsertError(sch, committed, visible, row) ==
  LET own == IF sch = "optimized" THEN PaymentViolation(committed, row)
                                  ELSE PaymentViolationUpdated(committed, row)
  IN IF own # "" THEN own ELSE ForeignKeyViolation(visible, row)

\* -------------------------------------------------------------------- state
VARIABLES
  variant,        \* which copy of the intake handler is deployed
  development,    \* process.env.NODE_ENV === 'development'
  captured,       \* order ids the payment processor has captured
  profiles,       \* committed rows of onboarding_submissions
  payments,       \* committed rows of payments
  nextUserId,     \* gen_random_uuid() for onboarding_submissions.user_id
  nextPaymentId,  \* gen_random_uuid() for payments.payment_id
  nreq,           \* intake requests received so far
  req,            \* req[r]: the body of request r
  st,             \* st[r]: where handler r stands, and its local variables
  faults,         \* infrastructure failures injected so far
  log,            \* calls to the read endpoints, the uploader and the verifier
  schema,         \* which table definitions the store was created from
  pool,           \* the connection pool: checked-out clients and the pending queue
  paypalEnv,      \* the processor credentials in process.env
  process         \* the server process: listening, shutting down, exited

vars == <<variant, development, captured, profiles, payments, nextUserId,
          nextPaymentId, nreq, req, st, faults, log, schema, pool, paypalEnv, process>>

\* ------------------------------------------------------ process environment
\* PAYPAL_CLIENT_ID ("" when unset) and whether the client secret is set.
NoEnv == [clientId |-> "", secret |-> FALSE]

\* The server process while it serves: listening, no shutdown under way.
\* open: requests being served; served: requests answered; timer: the
\* force-exit timer; exit: the exit code, -1 while the process runs.
Running ==
  [server |-> "", listening |-> TRUE, open |-> 0, served |-> 0, signals |-> 0,
   closing |-> FALSE,
   httpClosed |-> FALSE, poolEnding |-> FALSE, poolEnded |-> FALSE,
   timer |-> "none", exit |-> -1]

\* ---------------------------------------------------------- connection pool
\* new Pool({ max, connectionTimeoutMillis, ... }): the pools the sources
\* configure, by the file that creates them.
PoolConfigs == {"database.js", "part_005", "part_006", "part_007", "server.js"}

PoolMax(cfg) ==
  CASE cfg = "database.js" -> 15
    [] cfg = "part_005" -> 20
    [] cfg = "part_006" -> 10
    [] cfg = "part_007" -> 5
    [] OTHER -> 2

\* held: clients checked out; waiting: connect() calls in the pending queue;
\* handed: waiters that got a client another request released; rejected:
\* waiters whose connectionTimeoutMillis ran out; arrived: connect() calls.
\* served: requests that got a client and released it.
NoPool ==
  [config |-> "", held |-> 0, waiting |-> 0, handed |-> 0, rejected |-> 0,
   served |-> 0, arrived |-> 0]

\* A pool that hands out a client to every caller, as with no `max' at all.
HasRoomAlways(cfg, held) == TRUE

\* A client is handed out at once while fewer than `max' are checked out.
HasRoom(cfg, held) == held < PoolMax(cfg)

Idle ==
  [pc |-> "idle", originalUrls |-> <<>>, screenshotUrls |-> <<>>,
   userId |-> 0, paymentIdResult |-> 0, error |-> "",
   txOpen |-> FALSE, txProfiles |-> {}, txPayments |-> {},
   client |-> FALSE, acquired |-> 0, released |-> 0,
   uploads |-> 0, uploaded |-> 0, resp |-> NoResp,
   fresh |-> FALSE, raced |-> FALSE,
   began |-> FALSE, txBegun |-> FALSE, txEnd |-> "", rollbacks |-> 0]

Init ==
  /\ variant \in Variants
  /\ schema \in Schemas
  /\ development \in BOOLEAN
  /\ variant # "optimized" => development = FALSE
  /\ captured = {}
  /\ profiles = {}
  /\ payments = {}
  /\ nextUserId = 1
  /\ nextPaymentId = 1
  /\ nreq = 0
  /\ req = [r \in Rids |-> BaseRequest]
  /\ st = [r \in Rids |-> Idle]
  /\ faults = 0
  /\ log = <<>>
  /\ pool = NoPool
  /\ paypalEnv = NoEnv
  /\ process = Running

\* ------------------------------------------------------- the handler's route
\* Where each copy goes after a step.  payments.js uploads, then connects;
\* server.js connects, validates, uploads, then BEGIN; part_006 and
\* part_007 validate, connect, BEGIN, then upload inside the transaction.
AfterValidation(v) == IF v = "router" THEN "uploadOrig" ELSE "connect"

AfterConnect(v) ==
  CASE v = "router" -> "begin"
    [] v \in {"optimized", "simple"} -> "begin"
    [] OTHER -> "uploadOrig"

AfterUploads(v) ==
  CASE v = "router" -> "connect"
    [] v \in {"optimized", "simple"} -> "insProfile"
    [] OTHER -> "begin"

AfterBegin(v) == IF v \in {"optimized", "simple"} THEN "uploadOrig" ELSE "insProfile"

ConnectsFirst(v) == v = "server"

\* The handler returns as payments.js would if `finally' did not release: the
\* connection stays checked out.
FinishKeepsClient(s, resp) ==
  [s EXCEPT !.pc = "done", !.resp = resp,
            !.originalUrls = <<>>, !.screenshotUrls = <<>>,
            !.uploaded = Len(s.originalUrls) + Len(s.screenshotUrls),
            !.txOpen = FALSE, !.txProfiles = {}, !.txPayments = {}]

\* The handler returns: its locals are dead, the connection is back in the
\* pool if it held one (finally { client.release() }).
Finish(s, resp) ==
  [s EXCEPT !.pc = "done", !.resp = resp,
            !.originalUrls = <<>>, !.screenshotUrls = <<>>,
            !.uploaded = Len(s.originalUrls) + Len(s.screenshotUrls),
            !.txOpen = FALSE, !.txProfiles = {}, !.txPayments = {},
            !.client = FALSE,
            !.released = IF s.client THEN s.released + 1 ELSE s.released]

\* A statement of the transaction threw: control is in the catch block, which
\* awaits ROLLBACK.
Catch(s, err) == [s EXCEPT !.pc = "rollback", !.error = err]

\* ------------------------------------------------------------------ actions
\* The request arrives; the handler runs up to its first await.
Free(r) == st[r].pc \in {"idle", "done"}
InFlight(r) == ~Free(r)

\* fresh and raced only record history: whether the order id was absent from
\* the store when the request arrived, and whether another request was in
\* progress while this one was.

Arrive(r, q) ==
  /\ nreq < MaxRequests
  /\ Free(r)
  /\ \A x \in Rids : x < r => st[x].pc # st[r].pc
  /\ st[r].pc = "done" => \A x \in Rids : st[x].pc # "idle"
  /\ nreq' = nreq + 1
  /\ req' = [req EXCEPT ![r] = q]
  /\ LET new == [Idle EXCEPT
                    !.fresh = ~\E p \in payments : p.order_id = q.orderId,
                    !.raced = \E x \in Rids \ {r} : InFlight(x)]
         started ==
           IF ConnectsFirst(variant) THEN [new EXCEPT !.pc = "connect"]
           ELSE IF Validate(variant, q) # NoResp THEN Finish(new, Validate(variant, q))
           ELSE [new EXCEPT !.pc = AfterValidation(variant)]
     IN st' = [x \in Rids |->
                 IF x = r THEN started
                 ELSE IF InFlight(x) /\ started.pc # "done"
                   THEN [st[x] EXCEPT !.raced = TRUE]
                 ELSE st[x]]

\* POST /api/payments/store from a browser or through the frontend proxy.
Receive(r, q) ==
  /\ Arrive(r, q)
  /\ UNCHANGED <<process, paypalEnv, pool, log, schema, variant, development, captured, profiles, payments,
                 nextUserId, nextPaymentId, faults>>

\* await pool.connect() / getClient().  server.js validates once it holds the
\* connection, and releases it in `finally' when it rejects.
ConnectOk(s, q) ==
  LET held == [s EXCEPT !.client = TRUE, !.acquired = s.acquired + 1] IN
  IF ConnectsFirst(variant) /\ Validate(variant, q) # NoResp
    THEN Finish(held, Validate(variant, q))
    ELSE [held EXCEPT !.pc = AfterConnect(variant)]

Connect(r) ==
  /\ st[r].pc = "connect"
  /\ \/ /\ st' = [st EXCEPT ![r] = ConnectOk(@, req[r])]
        /\ UNCHANGED faults
     \/ /\ faults < MaxFaults
        /\ faults' = faults + 1
        /\ st' = [st EXCEPT ![r] =
                    Finish([@ EXCEPT !.error = ConnectionLost],
                           ConnectFailureResponse(variant, ConnectionLost))]
  /\ UNCHANGED <<process, paypalEnv, pool, log, schema, variant, development, captured, profiles, payments,
                 nextUserId, nextPaymentId, nreq, req>>

\* await uploadImagesToCloudinary(originalPhotos) / uploadImages(...).
UploadOriginals(r) ==
  /\ st[r].pc = "uploadOrig"
  /\ LET images == req[r].onboardingData.originalPhotos IN
     \E ok \in SUBSET SeqRange(images) :
       st' = [st EXCEPT ![r] =
                [@ EXCEPT !.pc = "uploadShot",
                          !.originalUrls = uploadImages(variant, images, OriginalFolder, ok),
                          !.uploads = @ + Len(images)]]
  /\ UNCHANGED <<process, paypalEnv, pool, log, schema, variant, development, captured, profiles, payments,
                 nextUserId, nextPaymentId, nreq, req, faults>>

UploadScreenshots(r) ==
  /\ st[r].pc = "uploadShot"
  /\ LET images == req[r].onboardingData.screenshotPhotos IN
     \E ok \in SUBSET SeqRange(images) :
       st' = [st EXCEPT ![r] =
                [@ EXCEPT !.pc = AfterUploads(variant),
                          !.screenshotUrls = uploadImages(variant, images, ScreenshotFolder, ok),
                          !.uploads = @ + Len(images)]]
  /\ UNCHANGED <<process, paypalEnv, pool, log, schema, variant, development, captured, profiles, payments,
                 nextUserId, nextPaymentId, nreq, req, faults>>

\* await client.query('BEGIN')
Begin(r) ==
  /\ st[r].pc = "begin"
  /\ \/ /\ st' = [st EXCEPT ![r] = [@ EXCEPT !.pc = AfterBegin(variant), !.txOpen = TRUE,
                                             !.began = TRUE, !.txBegun = TRUE]]
        /\ UNCHANGED faults
     \/ /\ faults < MaxFaults
        /\ faults' = faults + 1
        /\ st' = [st EXCEPT ![r] = Catch([@ EXCEPT !.began = TRUE], ConnectionLost)]
  /\ UNCHANGED <<process, paypalEnv, pool, log, schema, variant, development, captured, profiles, payments,
                 nextUserId, nextPaymentId, nreq, req>>

\* Rows other open transactions have inserted and not yet committed.  An
\* INSERT whose unique key meets one of them waits for that transaction to end.
PendingProfiles(r) == UNION { st[x].txProfiles : x \in Rids \ {r} }
PendingPayments(r) == UNION { st[x].txPayments : x \in Rids \ {r} }

\* await client.query('INSERT INTO onboarding_submissions ... RETURNING user_id')
InsertProfile(r) ==
  /\ st[r].pc = "insProfile"
  /\ LET row == ProfileRow(nextUserId, req[r], st[r].originalUrls, st[r].screenshotUrls)
         violation == ProfileInsertError(schema, profiles, row)
     IN
     /\ schema = "optimized" => ~\E p \in PendingProfiles(r) : p.email = row.email
     /\ \/ /\ violation = ""
           /\ st' = [st EXCEPT ![r] =
                      [@ EXCEPT !.pc = "insPayment", !.userId = row.user_id,
                                !.txProfiles = @ \cup {row}]]
           /\ nextUserId' = nextUserId + 1
           /\ UNCHANGED faults
        \/ /\ violation # ""
           /\ st' = [st EXCEPT ![r] = Catch(@, violation)]
           /\ UNCHANGED <<nextUserId, faults>>
        \/ /\ faults < MaxFaults
           /\ faults' = faults + 1
           /\ st' = [st EXCEPT ![r] = Catch(@, ConnectionLost)]
           /\ UNCHANGED nextUserId
  /\ UNCHANGED <<process, paypalEnv, pool, log, schema, variant, development, captured, profiles, payments,
                 nextPaymentId, nreq, req>>

\* await client.query('INSERT INTO payments ... RETURNING payment_id')
InsertPayment(r) ==
  /\ st[r].pc = "insPayment"
  /\ LET row == PaymentRow(nextPaymentId, st[r].userId, req[r])
         violation ==
           PaymentInsertError(schema, payments, profiles \cup st[r].txProfiles, row)
     IN
     /\ ~\E p \in PendingPayments(r) :
           \/ p.order_id = row.order_id
           \/ schema = "optimized" /\ p.paypal_payment_id = row.paypal_payment_id
     /\ \/ /\ violation = ""
           /\ st' = [st EXCEPT ![r] =
                      [@ EXCEPT !.pc = "commit", !.paymentIdResult = row.payment_id,
                                !.txPayments = @ \cup {row}]]
           /\ nextPaymentId' = nextPaymentId + 1
           /\ UNCHANGED faults
        \/ /\ violation # ""
           /\ st' = [st EXCEPT ![r] = Catch(@, violation)]
           /\ UNCHANGED <<nextPaymentId, faults>>
        \/ /\ faults < MaxFaults
           /\ faults' = faults + 1
           /\ st' = [st EXCEPT ![r] = Catch(@, ConnectionLost)]
           /\ UNCHANGED nextPaymentId
  /\ UNCHANGED <<process, paypalEnv, pool, log, schema, variant, development, captured, profiles, payments,
                 nextUserId, nreq, req>>

\* The committed rows after a transaction ended: COMMIT adds its pending
\* rows, ROLLBACK (or the loss of the session) adds none.
\* A handler that answers success without a COMMIT that took effect.
AfterCommitLost(committed, pending) == committed
\* A handler whose inserts ran outside the transaction: ROLLBACK undoes nothing.
AfterRollbackKeeps(committed, pending) == committed \cup pending

\* A store whose COMMIT replaces the table's rows by the transaction's.
AfterCommitReplaces(committed, pending) == pending

AfterCommit(committed, pending) == committed \cup pending
AfterRollback(committed, pending) == committed

\* A store whose COMMIT publishes the payments rows of a transaction but not
\* its onboarding_submissions rows.
CommitDropsProfiles(committed, pending) == committed

\* COMMIT is atomic: the transaction's onboarding_submissions rows become
\* visible in the same instant as its payments rows.
CommitProfiles(committed, pending) == AfterCommit(committed, pending)

\* await client.query('COMMIT'); res.json({ success: true, ... }); finally
\* release.  Both rows become visible together.
Commit(r) ==
  /\ st[r].pc = "commit"
  /\ \/ /\ profiles' = CommitProfiles(profiles, st[r].txProfiles)
        /\ payments' = AfterCommit(payments, st[r].txPayments)
        /\ st' = [st EXCEPT ![r] =
                   Finish([@ EXCEPT !.txEnd = "commit"],
                          SuccessResponse(variant, req[r], @.userId, @.paymentIdResult))]
        /\ UNCHANGED faults
     \/ /\ faults < MaxFaults
        /\ faults' = faults + 1
        /\ st' = [st EXCEPT ![r] = Catch(@, ConnectionLost)]
        /\ UNCHANGED <<profiles, payments>>
  /\ UNCHANGED <<process, paypalEnv, pool, log, schema, variant, development, captured, nextUserId, nextPaymentId,
                 nreq, req>>

\* catch: await client.query('ROLLBACK'), then the 500 answer, then finally
\* release.  The uncommitted rows are dropped either way: a ROLLBACK that
\* throws means the session is gone, and the server aborts its transaction.
\* payments.js rethrows to its outer catch, which answers also when ROLLBACK
\* threw; in the other copies that exception leaves the handler unanswered.
RollbackResponse(v, dev, err, rollbackOk) ==
  IF rollbackOk THEN FailureResponse(v, dev, err)
  ELSE IF v = "router" THEN FailureResponse(v, dev, ConnectionLost)
  ELSE NoResp

Rollback(r) ==
  /\ st[r].pc = "rollback"
  /\ profiles' = AfterRollback(profiles, st[r].txProfiles)
  /\ payments' = AfterRollback(payments, st[r].txPayments)
  /\ \/ /\ st' = [st EXCEPT ![r] =
                   Finish([@ EXCEPT !.txEnd = "rollback", !.rollbacks = @ + 1],
                          RollbackResponse(variant, development, @.error, TRUE))]
        /\ UNCHANGED faults
     \/ /\ faults < MaxFaults
        /\ faults' = faults + 1
        /\ st' = [st EXCEPT ![r] =
                   Finish([@ EXCEPT !.rollbacks = @ + 1],
                          RollbackResponse(variant, development, @.error, FALSE))]
  /\ UNCHANGED <<process, paypalEnv, pool, log, schema, variant, development, captured, nextUserId, nextPaymentId,
                 nreq, req>>

\* ------------------------------------------------------------------ callers
\* The body the capture route posts after a successful capture: the
\* processor's status string, and no onboardingData.
CaptureStoreRequest(o) ==
  StoreRequest(o, CaptureIdOf(o), 1, "payer@x.io", "COMPLETED", NoData, "capture")

\* POST /api/paypal/capture-order/:id: the processor captures the order, then
\* the route posts the capture to the intake endpoint.
CaptureOrder(r, o) ==
  /\ o \notin captured
  /\ captured' = captured \cup {o}
  /\ Arrive(r, CaptureStoreRequest(o))
  /\ UNCHANGED <<process, paypalEnv, pool, log, schema, variant, development, profiles, payments, nextUserId,
                 nextPaymentId, faults>>

\* POST /api/onboarding/submit: posts the form to the intake endpoint.
OnboardingSubmit(r, email, withPhotos) ==
  /\ Arrive(r, OnboardingSubmitRequest(email, withPhotos))
  /\ UNCHANGED <<process, paypalEnv, pool, log, schema, variant, development, captured, profiles, payments,
                 nextUserId, nextPaymentId, faults>>

Next ==
  \E r \in Rids :
    \/ \E q \in ClientRequests : Receive(r, q)
    \/ \E o \in OrderIds : CaptureOrder(r, o)
    \/ \E e \in Emails : OnboardingSubmit(r, e, FALSE)
    \/ Connect(r)
    \/ UploadOriginals(r)
    \/ UploadScreenshots(r)
    \/ Begin(r)
    \/ InsertProfile(r)
    \/ InsertPayment(r)
    \/ Commit(r)
    \/ Rollback(r)

Spec == Init /\ [][Next]_vars

\* ============================================================ read endpoints
\* GET /api/payments/list and GET /api/payments/order/:orderId read the store
\* and change nothing.  They are checked over stores larger than the page cap:
\* SpecQuery starts from a store seeded with 0..MaxRows committed pairs and
\* makes one call.
MaxRows == 102        \* committed pairs in the largest seeded store

PageCap == 100
DefaultLimit == 50
FixedLimit == 100
MinOrderIdLength == 3

\* Everything but `log'.
storeVars == <<process, paypalEnv, pool, schema, variant, development, captured, profiles, payments,
               nextUserId, nextPaymentId, nreq, req, st, faults>>

\* created_at TIMESTAMP ... DEFAULT NOW(): the column the listing sorts by.
\* Seeded rows get creation times that do not follow their insertion order.
Stamp(i) == (i * 37) % (MaxRows + 1)

SeedOrderId(i) == "order-" \o ToString(i)

SeedProfile(i) ==
  ProfileRow(i, StoreRequest(SeedOrderId(i), "cap-" \o ToString(i), 1, "payer@x.io",
                             "completed",
                             OnboardingData("Ann", "u" \o ToString(i) \o "@x.io", FALSE),
                             "client"),
             <<>>, <<>>)

SeedPayment(i) ==
  [payment_id |-> i, user_id |-> i, order_id |-> SeedOrderId(i),
   paypal_payment_id |-> "cap-" \o ToString(i), amount |-> 1,
   customer_email |-> "payer@x.io", status |-> "completed",
   created_at |-> Stamp(i)]

SeedSizes == {0, 1, 2, 3, 49, 50, 51, 99, 100, 101, MaxRows}

\* req.query.limit / req.query.page as the caller sent them.
Absent == [kind |-> "absent", n |-> 0]
Text == [kind |-> "text", n |-> 0]
Num(k) == [kind |-> "int", n |-> k]

QueryValues == {Absent, Text} \cup { Num(k) : k \in {-1, 0, 1, 2, 3, 100, 101, 1000} }
ListQueries == { [limit |-> l, page |-> pg] :
                   l \in QueryValues, pg \in {Absent, Num(-1), Num(0), Num(1), Num(2)} }
LookupIds == {SeedOrderId(1), SeedOrderId(MaxRows), "order-none", "o1", "zz"}

\* parseInt(x): NaN for a missing or non-numeric parameter.
ParseInt(v) ==
  IF v.kind = "int" THEN [nan |-> FALSE, n |-> v.n] ELSE [nan |-> TRUE, n |-> 0]

\* parseInt(x) || d: NaN and 0 are falsy.
OrDefault(x, d) == IF x.nan \/ x.n = 0 THEN d ELSE x.n

Min(a, b) == IF a < b THEN a ELSE b

\* A listing that passes the caller's limit through.
ListLimitUncapped(v, q) == OrDefault(ParseInt(q.limit), DefaultLimit)

\* part_006: Math.min(parseInt(req.query.limit) || 50, 100); the other copies
\* have LIMIT 100 in the statement and read no parameter.
ListLimit(v, q) ==
  IF v = "optimized"
    THEN Min(OrDefault(ParseInt(q.limit), DefaultLimit), PageCap)
    ELSE FixedLimit

ListOffset(v, q) ==
  IF v = "optimized"
    THEN (OrDefault(ParseInt(q.page), 1) - 1) * ListLimit(v, q)
    ELSE 0

\* FROM payments p JOIN onboarding_submissions o ON p.user_id = o.user_id
Joined(pays, profs) == { p \in pays : \E o \in profs : o.user_id = p.user_id }

RECURSIVE AnyOrder(_)
AnyOrder(rows) ==
  IF rows = {} THEN <<>>
  ELSE LET r == CHOOSE x \in rows : TRUE IN <<r>> \o AnyOrder(rows \ {r})

\* ORDER BY p.created_at DESC: latest first; rows of equal time in any order.
RECURSIVE DescBetween(_, _, _)
DescBetween(rows, lo, hi) ==
  IF lo > hi THEN <<>>
  ELSE IF lo = hi THEN AnyOrder({ r \in rows : r.created_at = lo })
  ELSE LET mid == (lo + hi) \div 2 IN
       DescBetween(rows, mid + 1, hi) \o DescBetween(rows, lo, mid)

OrderByCreatedAtDesc(rows) == DescBetween(rows, 0, MaxRows + 1)

\* LIMIT $1 OFFSET $2 on the sorted rows.
LimitOffset(sorted, limit, offset) ==
  IF offset >= Len(sorted) THEN <<>>
  ELSE SubSeq(sorted, offset + 1, Min(offset + limit, Len(sorted)))

\* Math.ceil(a / b) for a >= 0 and b > 0.
Ceil(a, b) == (a + b - 1) \div b

NoPagination ==
  [page |-> 0, limit |-> 0, totalCount |-> 0, totalPages |-> 0,
   hasNext |-> FALSE, hasPrev |-> FALSE]

\* part_006: the pagination object of the answer; totalCount is
\* SELECT COUNT(*) FROM payments.
Pagination(page, limit, totalCount) ==
  [page |-> page, limit |-> limit, totalCount |-> totalCount,
   totalPages |-> Ceil(totalCount, limit),
   hasNext |-> page < Ceil(totalCount, limit), hasPrev |-> page > 1]

\* The listing's answer.  PostgreSQL refuses a negative LIMIT or OFFSET and
\* the catch block answers 500.
ListResponse(v, pays, profs, q, dbOk) ==
  LET limit == ListLimit(v, q)
      offset == ListOffset(v, q)
  IN IF ~dbOk \/ limit < 0 \/ offset < 0
       THEN [status |-> 500, success |-> FALSE,
             message |-> IF v = "router" THEN "Failed to list payments"
                                         ELSE "Failed to fetch payments",
             payments |-> <<>>, pagination |-> NoPagination]
       ELSE [status |-> 200, success |-> TRUE, message |-> "",
             payments |-> LimitOffset(OrderByCreatedAtDesc(Joined(pays, profs)),
                                      limit, offset),
             pagination |-> IF v = "optimized"
                              THEN Pagination(OrDefault(ParseInt(q.page), 1), limit,
                                              Cardinality(pays))
                              ELSE NoPagination]

\* The lookup's answer.  part_006 first refuses an order id shorter than
\* three characters.
LookupResponse(v, pays, profs, orderId, dbOk) ==
  LET found == { p \in Joined(pays, profs) : p.order_id = orderId } IN
  IF v = "optimized" /\ Len(orderId) < MinOrderIdLength
    THEN [status |-> 400, success |-> FALSE, message |-> "Invalid order ID format",
          payment |-> <<>>]
  ELSE IF ~dbOk
    THEN [status |-> 500, success |-> FALSE, message |-> "Failed to fetch payment",
          payment |-> <<>>]
  ELSE IF found = {}
    THEN [status |-> 404, success |-> FALSE, message |-> "Payment not found",
          payment |-> <<>>]
  ELSE [status |-> 200, success |-> TRUE, message |-> "",
        payment |-> <<CHOOSE p \in found : TRUE>>]

InitQuery ==
  /\ variant \in Variants
  /\ schema = "optimized"
  /\ \E n \in SeedSizes :
       /\ profiles = { SeedProfile(i) : i \in 1..n }
       /\ payments = { SeedPayment(i) : i \in 1..n }
  /\ development = FALSE
  /\ captured = {}
  /\ nextUserId = 1
  /\ nextPaymentId = 1
  /\ nreq = 0
  /\ req = [r \in Rids |-> BaseRequest]
  /\ st = [r \in Rids |-> Idle]
  /\ faults = 0
  /\ log = <<>>
  /\ pool = NoPool
  /\ paypalEnv = NoEnv
  /\ process = Running

\* GET /api/payments/list?limit=..&page=..
ListPayments(q, dbOk) ==
  /\ log = <<>>
  /\ log' = <<[kind |-> "list", query |-> q, dbOk |-> dbOk,
               answer |-> ListResponse(variant, payments, profiles, q, dbOk)]>>
  /\ UNCHANGED storeVars

\* GET /api/payments/order/:orderId
LookupOrder(orderId, dbOk) ==
  /\ log = <<>>
  /\ log' = <<[kind |-> "lookup", orderId |-> orderId, dbOk |-> dbOk,
               answer |-> LookupResponse(variant, payments, profiles, orderId, dbOk)]>>
  /\ UNCHANGED storeVars

NextQuery ==
  \/ \E q \in ListQueries, dbOk \in BOOLEAN : ListPayments(q, dbOk)
  \/ \E orderId \in LookupIds, dbOk \in BOOLEAN : LookupOrder(orderId, dbOk)

SpecQuery == InitQuery /\ [][NextQuery]_vars

\* ============================================================ asset uploader
\* The uploader on its own, over every input a caller can hand it.  SpecUpload
\* makes one call with a list of up to MaxImages payloads, or with something
\* that is not a list, and any pattern of accepted and refused uploads.
MaxImages == 4        \* payloads in the longest list handed to the uploader

Payloads == 1..3

ImageLists == UNION { [1..n -> Payloads] : n \in 0..MaxImages }

Missing == [kind |-> "missing", items |-> <<>>]
NotAList == { [kind |-> "text", items |-> <<1>>], [kind |-> "object", items |-> <<>>] }
UploaderInputs == { [kind |-> "list", items |-> l] : l \in ImageLists }
                    \cup {Missing} \cup NotAList

IsArray(input) == input.kind = "list"

\* An uploader without the guard on its input.
SkipsUploadNever(v, input) == FALSE

\* payments.js, server.js: if (!images || !Array.isArray(images)) return [];
\* part_006, part_007: if (!Array.isArray(images) || images.length === 0) return [].
SkipsUpload(v, input) ==
  IF v \in {"router", "server"}
    THEN input.kind = "missing" \/ ~IsArray(input)
    ELSE ~IsArray(input) \/ Len(input.items) = 0

\* One call of the uploader: the URLs it returns, how often it called the
\* object store, and whether it threw.  Past the guard, for...of over a value
\* that is not iterable and .map on a value that is not an array throw; for...of
\* over a string walks its characters.
RunUploader(v, input, folder, ok) ==
  IF SkipsUpload(v, input)
    THEN [urls |-> <<>>, calls |-> 0, threw |-> FALSE]
  ELSE IF ~IsArray(input) /\ ~(v \in {"router", "server"} /\ input.kind = "text")
    THEN [urls |-> <<>>, calls |-> 0, threw |-> TRUE]
  ELSE [urls |-> uploadImages(v, input.items, folder, ok),
        calls |-> Len(input.items), threw |-> FALSE]

InitUpload ==
  /\ variant \in Variants
  /\ schema = "optimized"
  /\ development = FALSE
  /\ captured = {}
  /\ profiles = {}
  /\ payments = {}
  /\ nextUserId = 1
  /\ nextPaymentId = 1
  /\ nreq = 0
  /\ req = [r \in Rids |-> BaseRequest]
  /\ st = [r \in Rids |-> Idle]
  /\ faults = 0
  /\ log = <<>>
  /\ pool = NoPool
  /\ paypalEnv = NoEnv
  /\ process = Running

\* await uploadImagesToCloudinary(images, folder) / uploadImages(images, folder)
UploadCall(input, folder, ok) ==
  /\ log = <<>>
  /\ log' = <<[kind |-> "upload", input |-> input, folder |-> folder, ok |-> ok,
               answer |-> RunUploader(variant, input, folder, ok)]>>
  /\ UNCHANGED storeVars

NextUpload ==
  \E input \in UploaderInputs, folder \in {OriginalFolder, ScreenshotFolder},
     ok \in SUBSET Payloads :
    UploadCall(input, folder, ok)

SpecUpload == InitUpload /\ [][NextUpload]_vars

\* ========================================================== payment verifier
\* The capture operation on its own: POST /api/paypal/capture-order/:id of the
\* frontend ("route") and paypalAPI.captureOrder of the backend ("sdk").  Both
\* first need an access credential, then ask the processor to capture.  The
\* route's later POST to the intake endpoint does not change its answer (its
\* failure is caught and logged) and is the CaptureOrder step above.
MaxCalls == 2         \* capture calls in one behaviour

Verifiers == {"route", "sdk"}

\* How the attempt to get the credential ends.  route: requireCreds throws,
\* the token endpoint answers non-2xx, fetch rejects, or the answer has no
\* access_token.  sdk: the client was never built, the SDK's token request is
\* refused, or the network fails.
CredentialOutcomes(impl) ==
  IF impl = "route"
    THEN {"granted", "missing", "denied", "unreachable", "noToken"}
    ELSE {"granted", "uninitialised", "denied", "unreachable"}

\* What the processor answers to a capture request.  Every call carries a
\* new PayPal-Request-Id, so the processor never replays an earlier answer: a
\* second capture of a captured order is refused with ORDER_ALREADY_CAPTURED.
ProcessorAnswers(done, o) ==
  IF o \in done THEN {"alreadyCaptured"}
  ELSE {"completed", "notApproved", "serverError", "unreachable"}

NoCapture == [id |-> "", status |-> ""]

CaptureRecord(o) == [id |-> CaptureIdOf(o), status |-> "COMPLETED"]

TokenError(cred) ==
  CASE cred = "missing" ->
         "PayPal credentials missing. Set PAYPAL_CLIENT_ID and PAYPAL_CLIENT_SECRET."
    [] cred = "denied" -> "OAuth failed 401 Unauthorized"
    [] cred = "noToken" -> "OAuth response missing access_token"
    [] cred = "uninitialised" -> "PayPal client not initialized"
    [] OTHER -> "fetch failed"

HttpStatus(proc) == IF proc = "serverError" THEN 500 ELSE 422

Issue(proc) ==
  CASE proc = "alreadyCaptured" -> "ORDER_ALREADY_CAPTURED"
    [] proc = "notApproved" -> "ORDER_NOT_APPROVED"
    [] proc = "serverError" -> "INTERNAL_SERVER_ERROR"
    [] OTHER -> "fetch failed"

\* The answer when the processor did not capture.  route: a non-2xx answer is
\* passed on with the processor's status, a rejected fetch goes to the outer
\* catch.  sdk: client.execute throws and the catch returns error.message.
Refusal(impl, proc) ==
  IF impl = "route"
    THEN IF proc = "unreachable"
           THEN [status |-> 500, success |-> FALSE, message |-> "PayPal capture failed",
                 error |-> Issue(proc), capture |-> NoCapture]
           ELSE [status |-> HttpStatus(proc), success |-> FALSE,
                 message |-> "Failed to capture PayPal order",
                 error |-> Issue(proc), capture |-> NoCapture]
    ELSE [status |-> 0, success |-> FALSE, message |-> "",
          error |-> Issue(proc), capture |-> NoCapture]

\* A verifier that reports a credential failure as a refused capture.
CredentialFailureAsRefusal(impl, cred) == Refusal(impl, "notApproved")

\* The answer when no credential was obtained.  route: getAccessToken throws
\* into the outer catch.  sdk: `if (!client)', or the catch around execute.
CredentialFailure(impl, cred) ==
  IF impl = "route"
    THEN [status |-> 500, success |-> FALSE, message |-> "PayPal capture failed",
          error |-> TokenError(cred), capture |-> NoCapture]
    ELSE [status |-> 0, success |-> FALSE, message |-> "",
          error |-> TokenError(cred), capture |-> NoCapture]

Captured(impl, o) ==
  [status |-> IF impl = "route" THEN 200 ELSE 0, success |-> TRUE,
   message |-> "", error |-> "", capture |-> CaptureRecord(o)]

CaptureResponse(impl, o, cred, proc) ==
  IF cred # "granted" THEN CredentialFailure(impl, cred)
  ELSE IF proc # "completed" THEN Refusal(impl, proc)
  ELSE Captured(impl, o)

\* The environments the routes can run in.
PaypalEnvs == [clientId : {"", "test", "live"}, secret : BOOLEAN]

\* A getAccessToken without requireCreds().
ConfiguredAlways(env) == TRUE

\* requireCreds(): both the client id and the secret are set.
Configured(env) == env.clientId # "" /\ env.secret

\* A capture route whose test mode does not look at NODE_ENV.
MockModeAnyEnv(dev, env) == env.clientId = "test"

\* process.env.NODE_ENV === 'development' && process.env.PAYPAL_CLIENT_ID === 'test'
MockMode(dev, env) == dev /\ env.clientId = "test"

MockCapture == [id |-> "test_capture", status |-> "COMPLETED"]

MockCaptured ==
  [status |-> 200, success |-> TRUE, message |-> "", error |-> "",
   capture |-> MockCapture]

\* How getting the credential can end in this environment: the route's
\* getAccessToken throws before any request when the credentials are not set.
CredentialsFor(impl, env) ==
  IF impl = "route"
    THEN IF Configured(env) THEN CredentialOutcomes(impl) \ {"missing"} ELSE {"missing"}
    ELSE CredentialOutcomes(impl)

\* Requests that went to the processor: the token request unless the
\* credential check threw first, and the order request once a token was there.
Sent(cred, proc) ==
  (IF cred \in {"granted", "denied", "unreachable", "noToken"} THEN 1 ELSE 0)
    + (IF proc # "none" THEN 1 ELSE 0)

\* How the route's POST to the intake endpoint ends: 2xx, another status, or
\* a rejected fetch.
StoreOutcomes == {"ok", "rejected", "threw"}

\* The route posts to the intake endpoint only after captureRes.ok.
StoreCalled(impl, cred, proc) == impl = "route" /\ cred = "granted" /\ proc = "completed"

\* A route that fails the capture when the store call did not succeed.
AfterStoreStrict(answer, store) ==
  IF store = "ok" THEN answer
  ELSE [status |-> 500, success |-> FALSE, message |-> "PayPal capture failed",
        error |-> "Failed to store payment", capture |-> NoCapture]

\* try { await fetch(store) ... } catch (storeError) { }: both a refusal and
\* an exception are logged only, and the route goes on to its success answer.
AfterStore(answer, store) == answer

\* POST /api/paypal/create-order: getAccessToken, then POST /v2/checkout/orders.
CreateResponse(cred, proc) ==
  IF cred # "granted"
    THEN [status |-> 500, success |-> FALSE, message |-> "PayPal order creation failed",
          error |-> TokenError(cred), capture |-> NoCapture]
  ELSE IF proc = "unreachable"
    THEN [status |-> 500, success |-> FALSE, message |-> "PayPal order creation failed",
          error |-> Issue(proc), capture |-> NoCapture]
  ELSE IF proc # "created"
    THEN [status |-> HttpStatus(proc), success |-> FALSE,
          message |-> "PayPal order creation failed",
          error |-> Issue(proc), capture |-> NoCapture]
  ELSE [status |-> 200, success |-> TRUE, message |-> "", error |-> "",
        capture |-> NoCapture]

InitCapture ==
  /\ variant = "router"
  /\ schema = "optimized"
  /\ development \in BOOLEAN
  /\ captured = {}
  /\ profiles = {}
  /\ payments = {}
  /\ nextUserId = 1
  /\ nextPaymentId = 1
  /\ nreq = 0
  /\ req = [r \in Rids |-> BaseRequest]
  /\ st = [r \in Rids |-> Idle]
  /\ faults = 0
  /\ log = <<>>
  /\ pool = NoPool
  /\ paypalEnv \in PaypalEnvs
  /\ process = Running

\* One capture call.  proc is "none" when the processor was never asked,
\* store is "none" when the intake endpoint was never called.
CaptureCall(impl, o, cred, proc, store) ==
  LET mock == impl = "route" /\ MockMode(development, paypalEnv) IN
  /\ Len(log) < MaxCalls
  /\ IF mock
       THEN cred = "skipped" /\ proc = "none" /\ store = "none"
       ELSE /\ cred \in CredentialsFor(impl, paypalEnv)
            /\ IF cred = "granted" THEN proc \in ProcessorAnswers(captured, o)
                                   ELSE proc = "none"
            /\ IF StoreCalled(impl, cred, proc) THEN store \in StoreOutcomes
                                                ELSE store = "none"
  /\ captured' = IF proc = "completed" THEN captured \cup {o} ELSE captured
  /\ log' = Append(log, [kind |-> "capture", impl |-> impl, orderId |-> o,
                         cred |-> cred, proc |-> proc, store |-> store,
                         mock |-> mock, sent |-> Sent(cred, proc),
                         wasCaptured |-> o \in captured,
                         answer |-> IF mock THEN MockCaptured
                                    ELSE AfterStore(CaptureResponse(impl, o, cred, proc),
                                                    store)])
  /\ UNCHANGED <<process, paypalEnv, pool, schema, variant, development, profiles, payments,
                 nextUserId, nextPaymentId, nreq, req, st, faults>>

\* One create-order call of the route.
CreateCall(cred, proc) ==
  /\ Len(log) < MaxCalls
  /\ cred \in CredentialsFor("route", paypalEnv)
  /\ IF cred = "granted" THEN proc \in {"created", "serverError", "unreachable"}
                         ELSE proc = "none"
  /\ log' = Append(log, [kind |-> "create", impl |-> "route", orderId |-> "",
                         cred |-> cred, proc |-> proc, store |-> "none",
                         mock |-> FALSE, sent |-> Sent(cred, proc),
                         wasCaptured |-> FALSE,
                         answer |-> CreateResponse(cred, proc)])
  /\ UNCHANGED <<process, paypalEnv, pool, schema, variant, development, captured, profiles,
                 payments, nextUserId, nextPaymentId, nreq, req, st, faults>>

CaptureCreds ==
  {"granted", "missing", "uninitialised", "denied", "unreachable", "noToken", "skipped"}

NextCapture ==
  \/ \E impl \in Verifiers, o \in OrderIds, cred \in CaptureCreds,
        proc \in {"none", "completed", "notApproved", "alreadyCaptured", "serverError",
                  "unreachable"},
        store \in StoreOutcomes \cup {"none"} :
       CaptureCall(impl, o, cred, proc, store)
  \/ \E cred \in CaptureCreds, proc \in {"none", "created", "serverError", "unreachable"} :
       CreateCall(cred, proc)

SpecCapture == InitCapture /\ [][NextCapture]_vars

\* ------------------------------------------------------- front-end proxy
\* POST /api/payments/store of the front end.  It forwards the caller's body
\* to the intake endpoint and answers with what came back.
MaxProxyCalls == 2

\* What the intake endpoint can send back: the answers of the four handler
\* copies, nothing at all (status 0: the fetch rejects), or a body that is
\* not JSON (the 413 page of express.json({ limit: '10mb' }), a 404 page).
TextAnswer(code) == [status |-> code, raw |-> "<!DOCTYPE html>"]

UpstreamAnswers ==
  { Validate(v, q) : v \in Variants, q \in ClientRequests }
    \cup { FailureResponse(v, d, e) :
             v \in Variants, d \in BOOLEAN, e \in {DupOrder, ConnectionLost} }
    \cup { SuccessResponse(v, BaseRequest, 1, 1) : v \in Variants }
    \cup { ConnectFailureResponse(v, ConnectionLost) : v \in Variants }
    \cup { TextAnswer(413), TextAnswer(404) }

\* catch (err): { ok: false, error: err.message }, status 502.
ProxyFailure(msg) == [status |-> 502, ok |-> FALSE, error |-> msg]

\* A proxy that answers 200 whatever the upstream status was.
ProxyResponseAlwaysOk(upstream) == [upstream EXCEPT !.status = 200]

\* What the proxy makes of the upstream outcome: JSON.parse(text), or
\* { ok: false, raw } when the text is not JSON; status 200 when upstream.ok,
\* the upstream status otherwise; 502 when the fetch threw.
ProxyResponse(upstream) ==
  IF upstream.status = 0 THEN ProxyFailure("fetch failed")
  ELSE LET data == IF "success" \in DOMAIN upstream
                     THEN upstream
                     ELSE [status |-> upstream.status, ok |-> FALSE, raw |-> upstream.raw]
       IN IF upstream.status \in 200..299 THEN [data EXCEPT !.status = 200] ELSE data

\* The whole handler: await req.json() is inside the try as well, so a
\* caller's body that is not JSON ends in the same catch, with no fetch made.
ProxyPost(parsable, upstream) ==
  IF ~parsable THEN ProxyFailure("Unexpected token in JSON")
  ELSE ProxyResponse(upstream)

InitProxy ==
  /\ variant = "router"
  /\ schema = "optimized"
  /\ development = FALSE
  /\ captured = {}
  /\ profiles = {}
  /\ payments = {}
  /\ nextUserId = 1
  /\ nextPaymentId = 1
  /\ nreq = 0
  /\ req = [r \in Rids |-> BaseRequest]
  /\ st = [r \in Rids |-> Idle]
  /\ faults = 0
  /\ log = <<>>
  /\ pool = NoPool
  /\ paypalEnv = NoEnv
  /\ process = Running

\* One POST to the proxy.  called: the fetch to the intake endpoint was made.
ProxyCall(parsable, upstream) ==
  /\ Len(log) < MaxProxyCalls
  /\ log' = Append(log, [kind |-> "proxy", parsable |-> parsable, called |-> parsable,
                         upstream |-> IF parsable THEN upstream ELSE NoResp,
                         answer |-> ProxyPost(parsable, upstream)])
  /\ UNCHANGED storeVars

NextProxy == \E parsable \in BOOLEAN, upstream \in UpstreamAnswers : ProxyCall(parsable, upstream)

SpecProxy == InitProxy /\ [][NextProxy]_vars

\* ---------------------------------------------------------- pool under load
\* A burst of intake requests against one pool.  Each request calls
\* pool.connect() once and releases the client in `finally'; the pool hands a
\* released client to the oldest pending connect(), and rejects a pending
\* connect() when connectionTimeoutMillis runs out.
MaxClients == 21

handlerVars == <<process, paypalEnv, log, schema, variant, development, captured, profiles, payments,
                 nextUserId, nextPaymentId, nreq, req, st, faults>>

InitPool ==
  /\ variant = "router"
  /\ schema = "optimized"
  /\ development = FALSE
  /\ captured = {}
  /\ profiles = {}
  /\ payments = {}
  /\ nextUserId = 1
  /\ nextPaymentId = 1
  /\ nreq = 0
  /\ req = [r \in Rids |-> BaseRequest]
  /\ st = [r \in Rids |-> Idle]
  /\ faults = 0
  /\ log = <<>>
  /\ \E cfg \in PoolConfigs : pool = [NoPool EXCEPT !.config = cfg]
  /\ paypalEnv = NoEnv
  /\ process = Running

\* const client = await pool.connect()
PoolConnect ==
  /\ pool.arrived < MaxClients
  /\ pool' = IF HasRoom(pool.config, pool.held)
               THEN [pool EXCEPT !.arrived = @ + 1, !.held = @ + 1]
               ELSE [pool EXCEPT !.arrived = @ + 1, !.waiting = @ + 1]
  /\ UNCHANGED handlerVars

\* finally { client.release() }: the client goes to the oldest pending
\* connect(), or back to the idle list.
PoolRelease ==
  /\ pool.held > 0
  /\ pool' = IF pool.waiting > 0
               THEN [pool EXCEPT !.served = @ + 1, !.waiting = @ - 1, !.handed = @ + 1]
               ELSE [pool EXCEPT !.served = @ + 1, !.held = @ - 1]
  /\ UNCHANGED handlerVars

\* connectionTimeoutMillis elapsed for a pending connect(): it rejects.
PoolTimeout ==
  /\ pool.waiting > 0
  /\ pool' = [pool EXCEPT !.waiting = @ - 1, !.rejected = @ + 1]
  /\ UNCHANGED handlerVars

NextPool == PoolConnect \/ PoolRelease \/ PoolTimeout

SpecPool == InitPool /\ [][NextPool]_vars

\* ------------------------------------------------------------------ shutdown
\* The signal handlers of the three servers that have one.  part_006 and
\* server.js arm a force-exit timer, close the HTTP server, and end the pool
\* in the close callback; part_008 ends the pool at once and closes nothing.
MaxOpen == 3          \* requests accepted in one behaviour
MaxSignals == 2       \* shutdown signals delivered in one behaviour

Servers == {"part_006", "server.js", "part_008"}

ClosesHttpServer(srv) == srv # "part_008"

InitShutdown ==
  /\ variant = "router"
  /\ schema = "optimized"
  /\ development = FALSE
  /\ captured = {}
  /\ profiles = {}
  /\ payments = {}
  /\ nextUserId = 1
  /\ nextPaymentId = 1
  /\ nreq = 0
  /\ req = [r \in Rids |-> BaseRequest]
  /\ st = [r \in Rids |-> Idle]
  /\ faults = 0
  /\ log = <<>>
  /\ pool = NoPool
  /\ paypalEnv = NoEnv
  /\ \E srv \in Servers : process = [Running EXCEPT !.server = srv]

shutdownFrame == <<variant, development, captured, profiles, payments, nextUserId,
                   nextPaymentId, nreq, req, st, faults, log, schema, pool, paypalEnv>>

\* A connection is accepted while the server listens.
RequestOpens ==
  /\ process.exit = -1 /\ process.listening
  /\ process.open + process.served < MaxOpen
  /\ process' = [process EXCEPT !.open = @ + 1]
  /\ UNCHANGED shutdownFrame

\* A request being served ends.
RequestCloses ==
  /\ process.exit = -1 /\ process.open > 0
  /\ process' = [process EXCEPT !.open = @ - 1, !.served = @ + 1]
  /\ UNCHANGED shutdownFrame

\* process.on('SIGTERM' / 'SIGINT'): setTimeout(force exit); server.close(cb),
\* which stops accepting.  part_008: pool.end(cb) and nothing else.
Signal ==
  /\ process.exit = -1 /\ process.signals < MaxSignals
  /\ process' =
       IF ClosesHttpServer(process.server)
         THEN [process EXCEPT !.signals = @ + 1, !.timer = "armed",
                              !.listening = FALSE, !.closing = TRUE]
         ELSE [process EXCEPT !.signals = @ + 1, !.poolEnding = TRUE]
  /\ UNCHANGED shutdownFrame

\* The callback of server.close: every connection has ended; it calls
\* pool.end(cb).
HttpClosed ==
  /\ process.exit = -1 /\ process.closing /\ ~process.httpClosed
  /\ process.open = 0
  /\ process' = [process EXCEPT !.httpClosed = TRUE, !.poolEnding = TRUE]
  /\ UNCHANGED shutdownFrame

\* The callback of pool.end: clearTimeout, process.exit(0).
PoolEnded ==
  /\ process.exit = -1 /\ process.poolEnding
  /\ process' = [process EXCEPT !.poolEnded = TRUE, !.exit = 0,
                                !.timer = IF @ = "armed" THEN "cleared" ELSE @]
  /\ UNCHANGED shutdownFrame

\* The force-exit timer fires: process.exit(1).
ForceExit ==
  /\ process.exit = -1 /\ process.timer = "armed"
  /\ process' = [process EXCEPT !.timer = "fired", !.exit = 1]
  /\ UNCHANGED shutdownFrame

NextShutdown ==
  RequestOpens \/ RequestCloses \/ Signal \/ HttpClosed \/ PoolEnded \/ ForceExit

SpecShutdown == InitShutdown /\ [][NextShutdown]_vars

\* =================================================================== claims
Done(r) == st[r].pc = "done"
Valid(r) == Validate(variant, req[r]) = NoResp

\* No committed row carries an identity the store generated for request r.
WroteNothing(r) ==
  /\ \A u \in profiles : st[r].userId = 0 \/ u.user_id # st[r].userId
  /\ \A p \in payments : st[r].paymentIdResult = 0 \/ p.payment_id # st[r].paymentIdResult

PaymentsOfOrder(o) == { p \in payments : p.order_id = o }

\* body('email').isEmail() of validateOnboardingData (payments.js:502), on the
\* e-mail values of this model.
IsEmail(e) == e \in {GoodEmail, "cust@x.io", "payer@x.io"}

\* C1: every stored PaymentRecord belongs to an order the processor captured.
\* The handlers trust the posted status: the onboarding-submit route, or any
\* client, stores rows for an order that was never captured.
C1_OnlyCapturedOrdersStored ==
  \A p \in payments : p.order_id \in captured

\* C2 as stated: a request that passes validation and carries an order id not
\* in the store ends with exactly one new row pair.  Stated here only for
\* requests with a positive amount that met no infrastructure failure and no
\* concurrent request; it still fails, on a profile e-mail or capture id that
\* is already stored.
C2_FreshOrderAlwaysStored ==
  \A r \in Rids :
    (Done(r) /\ Valid(r) /\ st[r].fresh /\ ~st[r].raced /\ faults = 0
       /\ req[r].amount > 0)
      => /\ st[r].resp.success
         /\ Cardinality(PaymentsOfOrder(req[r].orderId)) = 1

\* C2 amended: when a validated request with a fresh order id finishes, either
\* it is answered with success and that step added exactly one ProfileSubmission
\* and one PaymentRecord, linked by the generated user_id, or it added no row.
C2_FreshOrderStoresOnePairOrNothing ==
  [][ \A r \in Rids :
        (st[r].pc # "done" /\ st'[r].pc = "done"
           /\ Validate(variant, req'[r]) = NoResp /\ st'[r].fresh)
        => IF st'[r].resp.success
             THEN \E u \in profiles', p \in payments' :
                    /\ u \notin profiles /\ profiles' = profiles \cup {u}
                    /\ p \notin payments /\ payments' = payments \cup {p}
                    /\ p.user_id = u.user_id
                    /\ u.user_id = st'[r].resp.userId
                    /\ p.payment_id = st'[r].resp.paymentId
                    /\ p.order_id = req'[r].orderId
             ELSE profiles' = profiles /\ payments' = payments ]_vars

C2_Witness ==
  \E r \in Rids :
    /\ Done(r) /\ Valid(r) /\ st[r].fresh /\ st[r].resp.success
    /\ \E u \in profiles, p \in payments :
         /\ p.order_id = req[r].orderId
         /\ p.user_id = u.user_id
         /\ u.user_id = st[r].resp.userId

\* C3: the store never holds two PaymentRecord rows with the same order_id.
C3_UniqueOrderId ==
  \A p1, p2 \in payments : p1.order_id = p2.order_id => p1 = p2

C3_Witness ==
  \E r \in Rids :
    /\ Done(r) /\ st[r].error = DupOrder
    /\ PaymentsOfOrder(req[r].orderId) # {}

\* C4: a request whose order_id is already stored gets an answer that differs
\* from the answer to any other failed transaction, and adds no rows.  Stated
\* here only for behaviours without infrastructure failure.
OtherStoreErrors == {DupEmail, DupPaypalId, AmountCheck, ConnectionLost}

C4_DuplicateOrderIsConflict ==
  \A r \in Rids :
    (Done(r) /\ st[r].error = DupOrder /\ faults = 0)
      => /\ st[r].resp.status # 0
         /\ \A e \in OtherStoreErrors :
              st[r].resp # FailureResponse(variant, development, e)
         /\ WroteNothing(r)

C6_NotCompletedIsDistinct ==
  /\ \A p \in payments : p.status = "completed"
  /\ \A r \in Rids :
       (Done(r) /\ ~MissingPaymentField(req[r]) /\ req[r].status # "completed")
         => /\ ~st[r].resp.success
            /\ WroteNothing(r)
            /\ \A x \in Rids :
                 (Done(x) /\ MissingPaymentField(req[x])
                    /\ req[x].status = "completed")
                   => st[r].resp # st[x].resp

\* C7: a request missing customerEmail, orderId, paymentId or amount is
\* rejected with a validation error, with no upload started, no connection
\* acquired and no row written.
C7_MissingFieldNoIO ==
  \A r \in Rids :
    (Done(r) /\ MissingPaymentField(req[r]))
      => /\ ~st[r].resp.success
         /\ st[r].error = "" => st[r].resp.status = 400
         /\ st[r].uploads = 0
         /\ st[r].acquired = 0
         /\ WroteNothing(r)

\* C8: a request whose profile payload is absent, has an empty name, or has an
\* e-mail that is empty or not an e-mail address is rejected with a validation
\* error, with no upload and no rows.
C8_ProfilePayloadValidated ==
  \A r \in Rids :
    (Done(r) /\ ~MissingPaymentField(req[r]) /\ req[r].status = "completed"
       /\ (MissingOnboarding(req[r]) \/ ~IsEmail(req[r].onboardingData.email)))
      => /\ ~st[r].resp.success
         /\ st[r].error = "" => st[r].resp.status = 400
         /\ st[r].uploads = 0
         /\ WroteNothing(r)

\* C9: when the object store fails for every photo of a request and no store
\* statement fails, the request is answered with success, its ProfileSubmission
\* is stored with empty original and screenshot URL lists, and its
\* PaymentRecord is stored.
C9_AllUploadsFailStillCommits ==
  \A r \in Rids :
    (Done(r) /\ st[r].uploads > 0 /\ st[r].uploaded = 0 /\ st[r].error = "")
      => /\ st[r].resp.success
         /\ \E u \in profiles, p \in payments :
              /\ u.user_id = st[r].resp.userId
              /\ u.original_photos = <<>>
              /\ u.screenshot_photos = <<>>
              /\ p.user_id = u.user_id
              /\ p.order_id = req[r].orderId

C9_Witness ==
  \E r \in Rids :
    /\ Done(r) /\ st[r].uploads = MaxPhotos + 1 /\ st[r].uploaded = 0
    /\ st[r].resp.success
    /\ \E u \in profiles : u.user_id = st[r].resp.userId /\ u.original_photos = <<>>

\* C10: when a statement fails after the ProfileSubmission insert succeeded
\* (the PaymentRecord insert, or COMMIT), no row of that request is in the
\* store once it has finished.
C10_FailedCommitLeavesNoRows ==
  \A r \in Rids :
    (Done(r) /\ st[r].userId # 0 /\ ~st[r].resp.success) => WroteNothing(r)

C10_Witness ==
  \E r \in Rids :
    /\ Done(r) /\ st[r].userId # 0 /\ ~st[r].resp.success
    /\ st[r].error \in {DupOrder, ConnectionLost}
    /\ \A u \in profiles : u.user_id # st[r].userId

\* C11: in every state other requests can see, each payment row points at an
\* existing profile row, and the two became visible in the same COMMIT: a
\* step that makes a payment row visible makes its profile row visible too.
C11_PaymentCommittedWithItsProfile ==
  [][\A p \in payments' :
       /\ \E o \in profiles' : o.user_id = p.user_id
       /\ p \notin payments =>
            \E o \in profiles' \ profiles : o.user_id = p.user_id]_vars

\* A payment is committed with its profile while another request holds rows
\* it has not committed yet.
C11_Witness ==
  /\ \E p \in payments : \E o \in profiles : o.user_id = p.user_id
  /\ \E r \in Rids : st[r].txProfiles # {} /\ st[r].txPayments = {}

\* C12: every committed profile row has a payment row that references it; no
\* profile is ever visible on its own.
C12_NoStandaloneProfile ==
  \A o \in profiles : \E p \in payments : p.user_id = o.user_id

\* A profile is committed, and another request inserted its profile row and
\* then failed on the payment insert.
C12_Witness ==
  /\ profiles # {}
  /\ \E r \in Rids :
       /\ Done(r) /\ st[r].userId # 0 /\ st[r].paymentIdResult = 0
       /\ st[r].error \in {DupOrder, DupPaypalId, AmountCheck}

\* C13: a success answer is sent only when both rows of the request are
\* committed, and after a failure answer the store holds no row the request
\* wrote.
C13_AnswerMatchesStore ==
  \A r \in Rids :
    (Done(r) /\ st[r].resp.status # 0) =>
      /\ st[r].resp.success =>
           /\ \E o \in profiles : o.user_id = st[r].userId
           /\ \E p \in payments :
                p.payment_id = st[r].paymentIdResult /\ p.user_id = st[r].userId
      /\ ~st[r].resp.success => WroteNothing(r)

\* One request was answered success; another had inserted both rows, lost
\* its COMMIT and was answered 500.
C13_Witness ==
  \E r1, r2 \in Rids :
    /\ Done(r1) /\ st[r1].resp.success
    /\ Done(r2) /\ st[r2].resp.status = 500 /\ st[r2].paymentIdResult # 0

\* C14: every success answer carries the generated user_id, the generated
\* payment_id and the order_id of the request.
C14_ReceiptEchoesOrderId ==
  \A r \in Rids :
    (Done(r) /\ st[r].resp.success) =>
      /\ st[r].resp.userId = st[r].userId
      /\ st[r].resp.paymentId = st[r].paymentIdResult
      /\ st[r].resp.orderId = req[r].orderId

\* C15: the listing returns payment rows latest first and never more than
\* 100 of them, whatever limit and page the caller asks for.
C15_ListingSortedAndCapped ==
  \A i \in 1..Len(log) :
    log[i].kind = "list" =>
      LET rows == log[i].answer.payments IN
      /\ Len(rows) <= 100
      /\ \A j, k \in 1..Len(rows) :
           j < k => rows[j].created_at >= rows[k].created_at
      /\ \A j \in 1..Len(rows) : rows[j] \in payments

\* The caller asked for 1000 rows of a store that holds more than 100 and
\* got the 100 latest.
C15_Witness ==
  \E i \in 1..Len(log) :
    /\ log[i].kind = "list" /\ variant = "optimized"
    /\ log[i].query.limit = Num(1000) /\ log[i].query.page = Absent
    /\ Cardinality(payments) > 100
    /\ log[i].answer.success /\ Len(log[i].answer.payments) = 100
    /\ \A p \in payments :
         \/ \E j \in 1..100 : log[i].answer.payments[j] = p
         \/ p.created_at < log[i].answer.payments[100].created_at

\* C16: a lookup of an order id that has no payment row is answered 404 with
\* success false, never success and never another error.
C16_UnknownOrderIsNotFound ==
  \A i \in 1..Len(log) :
    (/\ log[i].kind = "lookup" /\ log[i].dbOk
     /\ ~\E p \in payments : p.order_id = log[i].orderId) =>
      log[i].answer.status = 404 /\ ~log[i].answer.success

\* C17: for every list of payloads and every pattern of accepted and refused
\* uploads, the uploader returns exactly the URLs of the accepted payloads in
\* the order of the input; a refused payload is dropped and nothing else.
C17_UploaderKeepsSucceededInOrder ==
  \A i \in 1..Len(log) :
    (log[i].kind = "upload" /\ IsArray(log[i].input)) =>
      LET items == log[i].input.items
          urls == log[i].answer.urls
          succeeded == { j \in 1..Len(items) : items[j] \in log[i].ok }
      IN /\ ~log[i].answer.threw
         /\ Len(urls) = Cardinality(succeeded)
         /\ \A k \in 1..Len(urls) :
              LET j == CHOOSE x \in succeeded :
                         Cardinality({ y \in succeeded : y < x }) = k - 1
              IN urls[k] = SecureUrl(log[i].folder, items[j])

\* Four payloads in two batches, the second refused: the other three URLs
\* come back in input order.
C17_Witness ==
  \E i \in 1..Len(log) :
    /\ log[i].kind = "upload" /\ variant = "optimized"
    /\ log[i].input.items = <<3, 1, 2, 3>> /\ log[i].ok = {2, 3}
    /\ log[i].answer.urls = <<SecureUrl(log[i].folder, 3), SecureUrl(log[i].folder, 2),
                              SecureUrl(log[i].folder, 3)>>

\* C18: an empty list, a missing value and a value that is not a list all
\* yield an empty URL list, without an error and without a call to the
\* object store.
C18_NothingToUpload ==
  \A i \in 1..Len(log) :
    (/\ log[i].kind = "upload"
     /\ ~IsArray(log[i].input) \/ log[i].input.items = <<>>) =>
      /\ log[i].answer.urls = <<>>
      /\ ~log[i].answer.threw
      /\ log[i].answer.calls = 0

\* The uploader was handed a missing value and returned the empty list.
C18_Witness ==
  \E i \in 1..Len(log) :
    /\ log[i].kind = "upload" /\ log[i].input = Missing
    /\ log[i].answer = [urls |-> <<>>, calls |-> 0, threw |-> FALSE]

\* C19: a capture call on an order that is already captured is answered
\* success with the original capture record.
C19_RecaptureIsSuccess ==
  \A i \in 1..Len(log) :
    (/\ log[i].kind = "capture" /\ log[i].wasCaptured
     /\ log[i].cred = "granted") =>
      /\ log[i].answer.success
      /\ log[i].answer.capture = CaptureRecord(log[i].orderId)

InternalMessages ==
  {DupEmail, DupOrder, DupPaypalId, AmountCheck, GoalCheck, FkUser, ConnectionLost}

\* C21: every connection an intake request acquires is released exactly once
\* by the time the request finishes, whatever path it took: a request never
\* holds more than one, never releases more than it acquired, holds one
\* exactly between acquire and release, and has released it when it is done.
C21_ConnectionReleasedOnce ==
  \A r \in Rids :
    /\ st[r].released <= st[r].acquired
    /\ st[r].acquired <= 1
    /\ st[r].client <=> (st[r].acquired = st[r].released + 1)
    /\ Done(r) => (~st[r].client /\ st[r].released = st[r].acquired)

\* A request whose transaction failed and whose ROLLBACK threw as well has
\* finished, and the one connection it acquired is back in the pool.
C21_Witness ==
  \E r \in Rids :
    /\ Done(r) /\ st[r].began /\ st[r].txEnd = "" /\ st[r].rollbacks = 1
    /\ st[r].acquired = 1 /\ st[r].released = 1

\* C22: every answer of the intake endpoint, as the proxy hands it on,
\* carries a boolean success flag, and every failure answer carries a
\* non-empty message and an error category field.  The proxy's own failure
\* body has neither flag nor message, and no handler sends a category.
C22_ResponseEnvelope ==
  \A r \in Rids :
    Done(r) =>
      LET body == ProxyResponse(st[r].resp) IN
      /\ "success" \in DOMAIN body
      /\ body.success \in BOOLEAN
      /\ ~body.success =>
           /\ "message" \in DOMAIN body /\ body.message # ""
           /\ \E k \in {"code", "category", "errorCode", "type"} : k \in DOMAIN body

\* C25: the uploads of both collections are over before BEGIN is issued: a
\* request that is uploading holds no pooled connection and has no
\* transaction open.  Only payments.js uploads first.
C25_UploadsBeforeTransaction ==
  \A r \in Rids :
    st[r].pc \in {"uploadOrig", "uploadShot"} =>
      /\ ~st[r].client
      /\ ~st[r].txOpen
      /\ ~st[r].began

\* C26: a transaction the handler opened has been ended by a COMMIT or a
\* ROLLBACK that completed when the handler returns its connection; a
\* connection not held has no open transaction; ROLLBACK is issued only after
\* BEGIN was issued.  When ROLLBACK itself throws, `finally' still calls
\* client.release() with no error argument.
C26_TransactionEndedBeforeRelease ==
  \A r \in Rids :
    /\ (Done(r) /\ st[r].txBegun) => st[r].txEnd \in {"commit", "rollback"}
    /\ st[r].txOpen => st[r].client
    /\ st[r].rollbacks <= 1
    /\ (st[r].rollbacks > 0 \/ st[r].pc = "rollback") => st[r].began
    /\ st[r].txEnd = "commit" => st[r].rollbacks = 0

\* C27: a request that has finished has sent a response.  In part_006 and
\* part_007 a rejected pool.connect() escapes the handler, and in every copy
\* but payments.js a ROLLBACK that throws does: nothing is sent.
C27_FinishedRequestAnswered ==
  \A r \in Rids : Done(r) => st[r].resp.status # 0

\* C29: outside development mode no failure answer of the intake endpoint
\* contains an internal error message.  payments.js and server.js send
\* error.message unconditionally.
C29_NoInternalDetailOutsideDevelopment ==
  \A r \in Rids :
    (Done(r) /\ ~development) =>
      /\ st[r].resp.error \notin InternalMessages
      /\ st[r].resp.message \notin InternalMessages

\* C23: no two stored ProfileSubmissions have the same e-mail, and a request
\* the store refused for its e-mail is answered with an error of a kind of its
\* own and adds no rows.  The tables of setupUpdatedSchema have no unique
\* e-mail, and every handler answers a refused e-mail like any other failure.
C23_UniqueEmail ==
  /\ \A a, b \in profiles : a.email = b.email => a.user_id = b.user_id
  /\ \A r \in Rids :
       (Done(r) /\ st[r].error = DupEmail /\ faults = 0) =>
         /\ st[r].resp.status # 0
         /\ \A e \in InternalMessages \ {DupEmail} :
              st[r].resp # FailureResponse(variant, development, e)
         /\ WroteNothing(r)

\* C24: every stored PaymentRecord has an amount above zero, and a request
\* with a zero or negative amount is refused and stores nothing.  A negative
\* amount passes the `!amount' test, and the payments table of
\* setupUpdatedSchema has no CHECK on amount.
C24_PositiveAmount ==
  /\ \A p \in payments : p.amount > 0
  /\ \A r \in Rids :
       (Done(r) /\ req[r].amount <= 0) => (~st[r].resp.success /\ WroteNothing(r))

\* C30: every stored ProfileSubmission has a dating goal of the enumerated
\* set, and a request carrying another value is refused and stores nothing.
\* No handler applies validateOnboardingData, and the tables of
\* setupUpdatedSchema have no CHECK on the categorical columns.
C30_CategoricalFieldsEnumerated ==
  /\ \A u \in profiles : u.dating_goal \in DatingGoals
  /\ \A r \in Rids :
       (Done(r) /\ req[r].onboardingData.present
          /\ req[r].onboardingData.datingGoal \notin DatingGoals) =>
         (~st[r].resp.success /\ WroteNothing(r))

C37_NoOrphanAssets ==
  \A r \in Rids :
    (Done(r) /\ st[r].uploaded > 0) =>
      \E u \in profiles : st[r].userId # 0 /\ u.user_id = st[r].userId

\* C32: the store request the capture route sends after a successful capture
\* is accepted and a PaymentRecord of the captured order is committed.  The
\* route posts the processor's status "COMPLETED" and no onboardingData, which
\* every handler rejects.
C32_CapturedOrderIsStored ==
  \A r \in Rids :
    (Done(r) /\ req[r].src = "capture" /\ faults = 0) =>
      /\ st[r].resp.success
      /\ PaymentsOfOrder(req[r].orderId) # {}

\* C31: a committed ProfileSubmission and a committed PaymentRecord stay in
\* the store with every field as committed, status included, whatever the
\* service does next.
C31_CommittedRowsImmutable ==
  [][profiles \subseteq profiles' /\ payments \subseteq payments']_vars

\* A later intake request with the order id of a committed PaymentRecord has
\* run to its end, and the record and its profile are in the store.
C31_Witness ==
  \E r \in Rids :
    /\ Done(r) /\ st[r].error = DupOrder
    /\ \E p \in PaymentsOfOrder(req[r].orderId) :
         /\ p.status = "completed"
         /\ \E u \in profiles : u.user_id = p.user_id

\* C35 as stated: the proxy hands on the status and the JSON body of every
\* answer of the intake endpoint unchanged, answers 502 exactly when the call
\* to the intake endpoint was made and did not complete, and reports success
\* only when the intake endpoint did.
C35_ProxyPassesThrough ==
  \A i \in 1..Len(log) :
    LET e == log[i] IN
    /\ (e.called /\ "success" \in DOMAIN e.upstream /\ e.upstream.status # 0)
         => e.answer = e.upstream
    /\ e.answer.status = 502 <=> (e.called /\ e.upstream.status = 0)
    /\ ("success" \in DOMAIN e.answer /\ e.answer.success)
         => (e.called /\ e.upstream.status = 200 /\ e.upstream.success)

\* C35 amended: as above, but 502 is also the answer when the caller's own
\* body is not JSON and no call to the intake endpoint is made.
C35_ProxyPassesThroughOr502 ==
  \A i \in 1..Len(log) :
    LET e == log[i] IN
    /\ (e.called /\ "success" \in DOMAIN e.upstream /\ e.upstream.status # 0)
         => e.answer = e.upstream
    /\ e.answer.status = 502 <=> (~e.called \/ e.upstream.status = 0)
    /\ ("success" \in DOMAIN e.answer /\ e.answer.success)
         => (e.called /\ e.upstream.status = 200 /\ e.upstream.success)

\* The proxy has handed on a rejection of the intake endpoint, and has
\* answered 502 to a call the intake endpoint never answered.
C35_Witness ==
  \E i, j \in 1..Len(log) :
    /\ log[i].called /\ log[i].upstream.status = 400 /\ log[i].answer.status = 400
    /\ log[j].called /\ log[j].upstream.status = 0 /\ log[j].answer.status = 502

\* C38: for every page and limit parameter of the paginated listing, the
\* limit given to the store is in 1..100 and the offset is not negative, and
\* the answer's hasNext and hasPrev are page < ceil(totalCount / limit) and
\* page > 1.  A negative limit or page goes to the store as it is.
C38_PaginationBounds ==
  \A i \in 1..Len(log) :
    (log[i].kind = "list" /\ variant = "optimized") =>
      /\ ListLimit(variant, log[i].query) \in 1..100
      /\ ListOffset(variant, log[i].query) >= 0
      /\ log[i].answer.success =>
           LET pg == log[i].answer.pagination IN
           /\ pg.limit = ListLimit(variant, log[i].query)
           /\ pg.totalCount = Cardinality(payments)
           /\ pg.hasNext <=> (pg.page * pg.limit < pg.totalCount)
           /\ pg.hasPrev <=> (pg.page > 1)

\* C33: the capture route's answer depends only on what the processor said.
\* After a successful capture it posts to the intake endpoint and answers
\* success with the capture record however that post ended; after a refusal
\* or a failed credential it makes no post and answers failure.
C33_CaptureAnswerIgnoresStore ==
  /\ \A i \in 1..Len(log) :
       (log[i].kind = "capture" /\ log[i].impl = "route" /\ ~log[i].mock) =>
         IF log[i].cred = "granted" /\ log[i].proc = "completed"
           THEN /\ log[i].store \in StoreOutcomes
                /\ log[i].answer = Captured("route", log[i].orderId)
           ELSE /\ log[i].store = "none"
                /\ ~log[i].answer.success
  /\ \A i, j \in 1..Len(log) :
       (/\ log[i].kind = "capture" /\ log[j].kind = "capture"
        /\ log[i].impl = "route" /\ log[j].impl = "route"
        /\ log[i].cred = log[j].cred /\ log[i].proc = log[j].proc
        /\ log[i].orderId = log[j].orderId) =>
         log[i].answer = log[j].answer

\* Two orders were captured; the store call of one was refused and that of
\* the other threw.
C33_Witness ==
  \E i, j \in 1..Len(log) :
    /\ log[i].kind = "capture" /\ log[i].impl = "route"
    /\ log[i].proc = "completed" /\ log[i].store = "rejected"
    /\ log[j].kind = "capture" /\ log[j].impl = "route"
    /\ log[j].proc = "completed" /\ log[j].store = "threw"

\* C34 as stated: with the client id or the secret not set, every call of the
\* create-order and capture routes fails on the credential check, sends no
\* request to the processor, and is answered with a failure.
C34_MissingCredentialsFailFast ==
  \A i \in 1..Len(log) :
    (log[i].impl = "route" /\ (paypalEnv.clientId = "" \/ ~paypalEnv.secret)) =>
      /\ log[i].cred = "missing"
      /\ log[i].sent = 0 /\ log[i].proc = "none"
      /\ ~log[i].answer.success
      /\ log[i].answer.error = TokenError("missing")

\* C34 amended: the same for the create-order route and, outside the test
\* mode, for the capture route; in the test mode (NODE_ENV development and
\* client id 'test') the capture route answers with its mock capture and
\* sends no request either.
C34_MissingCredentialsFailFastUnlessMock ==
  \A i \in 1..Len(log) :
    (log[i].impl = "route" /\ (paypalEnv.clientId = "" \/ ~paypalEnv.secret)) =>
      /\ log[i].sent = 0 /\ log[i].proc = "none"
      /\ IF log[i].kind = "capture" /\ development /\ paypalEnv.clientId = "test"
           THEN log[i].answer = MockCaptured
           ELSE /\ log[i].cred = "missing"
                /\ ~log[i].answer.success
                /\ log[i].answer.error = TokenError("missing")

\* With no secret set, a create-order call and a capture call have both
\* failed on the credential check.
C34_Witness ==
  \E i, j \in 1..Len(log) :
    /\ ~paypalEnv.secret
    /\ log[i].kind = "create" /\ log[i].cred = "missing"
    /\ log[j].kind = "capture" /\ log[j].impl = "route" /\ log[j].cred = "missing"

\* C39: a success answer of the capture route carries the record of a capture
\* the processor made, unless NODE_ENV is development and the client id is
\* 'test'; the mock capture is returned in that configuration only.
C39_SuccessMeansProcessorCapture ==
  \A i \in 1..Len(log) :
    (log[i].kind = "capture" /\ log[i].impl = "route") =>
      /\ log[i].answer.success =>
           IF development /\ paypalEnv.clientId = "test"
             THEN log[i].answer.capture = MockCapture
             ELSE /\ log[i].proc = "completed"
                  /\ log[i].orderId \in captured
                  /\ log[i].answer.capture = CaptureRecord(log[i].orderId)
      /\ log[i].answer.capture = MockCapture =>
           (development /\ paypalEnv.clientId = "test")

\* Outside development, with client id 'test', the route asked the processor
\* and answered with the processor's capture.
C39_Witness ==
  \E i \in 1..Len(log) :
    /\ ~development /\ paypalEnv.clientId = "test"
    /\ log[i].kind = "capture" /\ log[i].impl = "route"
    /\ log[i].proc = "completed" /\ log[i].answer.success

\* C36: after a shutdown signal the server no longer accepts requests; the
\* pool is ended only once the HTTP server has closed; exit code 0 follows the
\* end of the pool; and while the shutdown is under way a force-exit timer is
\* armed, so the process exits in any case.  part_008 ends the pool at once,
\* leaves the HTTP server listening, and arms no timer.
C36_OrderlyShutdown ==
  /\ process.signals > 0 => ~process.listening
  /\ process.poolEnding => process.httpClosed
  /\ process.exit = 0 => (process.httpClosed /\ process.poolEnded)
  /\ (process.signals > 0 /\ process.exit = -1) => process.timer = "armed"
  /\ process.exit = 1 => process.timer = "fired"

====
